---- MODULE Spec2Model ----
(***************************************************************************)
(* Model of the SGP4 NIF binding layer (cpp_src/sgp4_nif.cpp): the three   *)
(* stateless entry points propagate_tle / propagate_tle_batch, the         *)
(* resource-backed handle API init_satellite / propagate_satellite /       *)
(* get_satellite_info, and the resource destructor.                        *)
(*                                                                         *)
(* Doubles are modelled by integers (the only arithmetic the binding does  *)
(* is the multiplication by 1000).  The source indexes from 0; so do the   *)
(* batch buffers below.  Byte strings are sequences of byte values.        *)
(***************************************************************************)
EXTENDS Integers, Sequences, FiniteSets, TLC

VARIABLES
    openmp,      \* build flag: TRUE when compiled with _OPENMP (lines 5-7, 153-155)
    client,      \* the API the calling process uses: "stateless" or "handle"
    pc,          \* "idle", or "loop" while a batch call is inside its for loop
    call,        \* arguments of the batch call in progress
    ret,         \* the NIF call that has just returned: operation, arguments, result
    satrec,      \* propagate_tle_batch: the record decoded once (line 130)
    nthreads,    \* propagate_tle_batch: size of the OpenMP team running the loop
    ipc,         \* propagate_tle_batch: position of each loop iteration
    loc,         \* propagate_tle_batch: locals of each loop iteration
    success,     \* propagate_tle_batch: std::vector<bool> success (line 150)
    r_results,   \* propagate_tle_batch: std::vector<double> r_results (line 148)
    v_results,   \* propagate_tle_batch: std::vector<double> v_results (line 149)
    heap,        \* resources handed out by enif_alloc_resource, in order of allocation
    held,        \* resources for which the caller holds a resource term
    calls,       \* propagate_satellite calls between their copy and sgp4's return
    released     \* held resources the caller has asked the binding to release

vars == <<openmp, client, pc, call, ret, satrec, nthreads, ipc, loc, success,
          r_results, v_results, heap, held, calls, released>>

batchVars == <<pc, call, satrec, nthreads, ipc, loc, success, r_results, v_results>>
heapVars == <<heap, held>>

----------------------------------------------------------------------------
(* Bounds of the model *)

MaxLen == 3         \* longest time list passed to propagate_tle_batch
MaxWorkers == 3     \* largest OpenMP team
MaxRes == 2         \* resources allocated in one run

(* Program constants *)

TleBufSize == 70    \* char tle1[70], tle2[70]; size >= 70 is rejected
WordBits == 64      \* bits per storage word of std::vector<bool>
KmToM == 1000       \* r[k] * 1000, v[k] * 1000

----------------------------------------------------------------------------
(* Erlang terms passed as arguments *)

NUL == 0
Rep(b, n) == [k \in 1..n |-> b]

Binary(bytes) == [type |-> "binary", bytes |-> bytes, val |-> 0]
Float(x) == [type |-> "float", bytes |-> <<>>, val |-> x]
Integer(x) == [type |-> "integer", bytes |-> <<>>, val |-> x]
Atom == [type |-> "atom", bytes |-> <<>>, val |-> 0]
Ref(a) == [type |-> "resource", bytes |-> <<>>, val |-> a]
List(elems) == [type |-> "list", elems |-> elems]

\* Lines offered to the entry points: the two boundary lengths 69 and 70, a
\* short line with an embedded NUL byte, and a line that fails to decode.
Lines ==
    { Rep(49, TleBufSize - 1), Rep(49, TleBufSize), <<49, NUL, 50>>, <<88>> }

LineArgs == {Binary(b) : b \in Lines} \cup {Atom}

TimeValues == {0, 1, 2}
TimeArgs == {Float(x) : x \in TimeValues} \cup {Integer(1), Atom}

\* Entries of a batch's time list: a time that propagates, a time that fails,
\* and the two shapes that are not doubles.
BatchTimeArgs == {Float(0), Float(2), Integer(1), Atom}

SeqsUpTo(S, n) == UNION {[1..k -> S] : k \in 0..n}

----------------------------------------------------------------------------
(* erl_nif accessors used by the entry points *)

enif_inspect_binary(term) == term.type = "binary"
enif_get_double(term) == term.type = "float"
enif_is_list(term) == term.type = "list"

\* Result terms.  An error string built with snprintf keeps its format and
\* the formatted number apart.
badarg == [tag |-> "badarg"]
ErrorString(s) == [tag |-> "error", msg |-> s, hasCode |-> FALSE, code |-> 0]
ErrorFmt(s, n) == [tag |-> "error", msg |-> s, hasCode |-> TRUE, code |-> n]
OkTerm(x) == [tag |-> "ok", val |-> x]

\* The characters a char[70] buffer holds when read as a C string after
\* memcpy(buf, data, size); buf[size] = '\0': the bytes before the first NUL.
strlen(bytes) ==
    IF \E k \in 1..Len(bytes) : bytes[k] = NUL
    THEN (CHOOSE k \in 1..Len(bytes) :
              bytes[k] = NUL /\ \A j \in 1..(k - 1) : bytes[j] # NUL) - 1
    ELSE Len(bytes)

CStr(bytes) == SubSeq(bytes, 1, strlen(bytes))

\* The length check off by one: a line of 70 bytes passes
TooLongOffByOne(l1, l2) == Len(l1.bytes) > TleBufSize \/ Len(l2.bytes) > TleBufSize

TooLong(l1, l2) == Len(l1.bytes) >= TleBufSize \/ Len(l2.bytes) >= TleBufSize

----------------------------------------------------------------------------
(* The external SGP4 library (SGP4.h), consumed through its two routines.  *)
(* Both are deterministic functions of their inputs.  sgp4 works in the    *)
(* record it is given: it writes the time and error fields, and what it    *)
(* computes starts from the time the record was left at, so it returns the *)
(* reference values only on a record as twoline2rv left it (t = 0).        *)

DecodeError(tle1, tle2) ==
    IF tle1 = <<>> \/ Head(tle1) = 88 THEN 3
    ELSE IF tle2 = <<>> \/ Head(tle2) = 88 THEN 4
    ELSE 0

twoline2rv(tle1, tle2) ==
    [error |-> DecodeError(tle1, tle2), elems |-> <<tle1, tle2>>, t |-> 0]

PropError(rec, tsince) ==
    IF tsince >= 2 THEN 6
    ELSE IF tsince = 1 /\ Len(rec.elems[1]) < 2 THEN 1
    ELSE 0

sgp4(rec, tsince) ==
    LET err == PropError(rec, tsince)
    IN  [result |-> err = 0,
         satrec |-> [rec EXCEPT !.t = tsince, !.error = err],
         r |-> <<7000 + Len(rec.elems[1]), tsince, rec.t - tsince>>,
         v |-> <<tsince, 7 + Len(rec.elems[2]), Head(rec.elems[1])>>]

NoSatrec == [error |-> 0, elems |-> <<<<>>, <<>>>>, t |-> 0]

----------------------------------------------------------------------------
(* propagate_tle: the single-shot entry point, a function of its arguments *)

ToSI(x) == <<x[1] * KmToM, x[2] * KmToM, x[3] * KmToM>>

StateTerm(r, v) == OkTerm(<<ToSI(r), ToSI(v)>>)

propagate_tle(a1, a2, a3) ==
    IF ~enif_inspect_binary(a1) \/ ~enif_inspect_binary(a2) \/ ~enif_get_double(a3)
    THEN badarg
    ELSE IF TooLong(a1, a2)
    THEN ErrorString("TLE lines too long")
    ELSE LET rec == twoline2rv(CStr(a1.bytes), CStr(a2.bytes))
         IN  IF rec.error # 0
             THEN ErrorFmt("TLE initialization error: %d", rec.error)
             ELSE LET p == sgp4(rec, a3.val)
                  IN  IF ~p.result \/ p.satrec.error # 0
                      THEN ErrorFmt("Propagation error: %d", p.satrec.error)
                      ELSE StateTerm(p.r, p.v)

----------------------------------------------------------------------------
(* propagate_tle_batch *)

NoCall == <<>>
NoRet == [op |-> "none", args |-> <<>>, result |-> badarg]

Returned(op, args, result) == [op |-> op, args |-> args, result |-> result]

\* Lines 91-145: everything the batch call does before its loop.  Either an
\* early return (done) or the decoded record the loop works from.
BatchEntry(a1, a2, a3) ==
    IF ~enif_inspect_binary(a1) \/ ~enif_inspect_binary(a2) \/ ~enif_is_list(a3)
    THEN [done |-> TRUE, result |-> badarg, satrec |-> NoSatrec]
    ELSE IF Len(a3.elems) = 0
    THEN [done |-> TRUE, result |-> badarg, satrec |-> NoSatrec]
    ELSE IF \E k \in 1..Len(a3.elems) : ~enif_get_double(a3.elems[k])
    THEN [done |-> TRUE, result |-> badarg, satrec |-> NoSatrec]
    ELSE IF TooLong(a1, a2)
    THEN [done |-> TRUE, result |-> ErrorString("TLE lines too long"),
          satrec |-> NoSatrec]
    ELSE LET rec == twoline2rv(CStr(a1.bytes), CStr(a2.bytes))
         IN  IF rec.error # 0
             THEN [done |-> TRUE,
                   result |-> ErrorFmt("TLE initialization error: %d", rec.error),
                   satrec |-> NoSatrec]
             ELSE [done |-> FALSE, result |-> badarg, satrec |-> rec]

\* std::vector<double> times(length), filled from the list (lines 106-116)
times == [i \in 0..(Len(call[3].elems) - 1) |-> call[3].elems[i + 1].val]
length == Len(call[3].elems)
Indices == 0..(length - 1)

NoLoc == [satrec |-> NoSatrec, result |-> FALSE, error |-> 0,
          r |-> <<0, 0, 0>>, v |-> <<0, 0, 0>>, word |-> <<>>]

\* The indices whose flags share a storage word of the vector<bool> with i
WordOf(i) == {j \in DOMAIN success : j \div WordBits = i \div WordBits}

\* Iterations that have started and not finished: each occupies one thread
Running == {i \in DOMAIN ipc : ipc[i] \in {"call", "store", "check"}}

\* The call is made; it returns early, or allocates its buffers (lines
\* 147-150) and enters the loop with a team of nthreads threads.
BatchCall ==
    /\ client = "stateless"
    /\ pc = "idle" /\ ret = NoRet
    /\ \E a1 \in LineArgs, a2 \in LineArgs,
          a3 \in {List(ts) : ts \in SeqsUpTo(BatchTimeArgs, MaxLen)} \cup {Atom} :
         LET e == BatchEntry(a1, a2, a3)
             n == Len(a3.elems)
         IN  IF e.done
             THEN /\ ret' = Returned("propagate_tle_batch", <<a1, a2, a3>>, e.result)
                  /\ UNCHANGED batchVars
             ELSE /\ pc' = "loop"
                  /\ call' = <<a1, a2, a3>>
                  /\ satrec' = e.satrec
                  /\ \E w \in 1..MaxWorkers :
                        /\ (~openmp => w = 1)
                        /\ nthreads' = w
                  /\ ipc' = [i \in 0..(n - 1) |-> "todo"]
                  /\ loc' = [i \in 0..(n - 1) |-> NoLoc]
                  /\ success' = [i \in 0..(n - 1) |-> FALSE]
                  /\ r_results' = [k \in 0..(3 * n - 1) |-> 0]
                  /\ v_results' = [k \in 0..(3 * n - 1) |-> 0]
                  /\ ret' = NoRet
    /\ UNCHANGED <<openmp, client, calls, released, heapVars>>

\* Line 158: the iteration starts on a free thread of the team (without
\* OpenMP the loop runs in index order) and copies the decoded record.
IterCopy(i) ==
    /\ pc = "loop"
    /\ ipc[i] = "todo"
    /\ Cardinality(Running) < nthreads
    /\ (~openmp => \A j \in Indices : j < i => ipc[j] = "done")
    /\ loc' = [loc EXCEPT ![i] = [NoLoc EXCEPT !.satrec = satrec]]
    /\ ipc' = [ipc EXCEPT ![i] = "call"]
    /\ UNCHANGED <<openmp, client, calls, released, pc, call, ret, satrec, nthreads, success,
                   r_results, v_results, heapVars>>

\* sgp4 run on the record all iterations were decoded into, without the copy
SharedSatrecWritten(p) == p.satrec

\* Line 161: sgp4 is given local_satrec; the record decoded at line 130 is
\* read by the copy alone and stays what it was.
SharedSatrecAfter(p) == satrec

\* Lines 161-163 up to the read of the flag's word: sgp4 runs on the
\* iteration's copy, and the word that holds success[i] is loaded.
IterPropagate(i) ==
    /\ pc = "loop"
    /\ ipc[i] = "call"
    /\ LET local_satrec == loc[i].satrec
           p == sgp4(local_satrec, times[i])
       IN  /\ loc' = [loc EXCEPT ![i] =
                         [satrec |-> p.satrec,
                          result |-> p.result, error |-> p.satrec.error,
                          r |-> p.r, v |-> p.v,
                          word |-> [j \in WordOf(i) |-> success[j]]]]
           /\ satrec' = SharedSatrecAfter(p)
    /\ ipc' = [ipc EXCEPT ![i] = "store"]
    /\ UNCHANGED <<openmp, client, calls, released, pc, call, ret, nthreads, success,
                   r_results, v_results, heapVars>>

\* Line 163, the write: the loaded word goes back with bit i set or cleared.
StoreFlag(i) ==
    [j \in DOMAIN success |->
        IF j = i THEN loc[i].result /\ (loc[i].error = 0)
        ELSE IF j \in WordOf(i) THEN loc[i].word[j]
        ELSE success[j]]

IterStoreFlag(i) ==
    /\ pc = "loop"
    /\ ipc[i] = "store"
    /\ success' = StoreFlag(i)
    /\ ipc' = [ipc EXCEPT ![i] = "check"]
    /\ UNCHANGED <<openmp, client, calls, released, pc, call, ret, satrec, nthreads, loc,
                   r_results, v_results, heapVars>>

\* Lines 165-173: the flag is read back and the vectors are stored if it is set.
StoreVec(vec, i, x) ==
    [k \in DOMAIN vec |->
        IF k = i * 3 THEN x[1]
        ELSE IF k = i * 3 + 1 THEN x[2]
        ELSE IF k = i * 3 + 2 THEN x[3]
        ELSE vec[k]]

IterStoreResults(i) ==
    /\ pc = "loop"
    /\ ipc[i] = "check"
    /\ IF success[i]
       THEN /\ r_results' = StoreVec(r_results, i, loc[i].r)
            /\ v_results' = StoreVec(v_results, i, loc[i].v)
       ELSE UNCHANGED <<r_results, v_results>>
    /\ ipc' = [ipc EXCEPT ![i] = "done"]
    /\ loc' = [loc EXCEPT ![i] = NoLoc]
    /\ UNCHANGED <<openmp, client, calls, released, pc, call, ret, satrec, nthreads, success, heapVars>>

\* Lines 179-198: the term built for index i after the loop
BatchItem(i) ==
    IF success[i]
    THEN StateTerm(<<r_results[i * 3], r_results[i * 3 + 1], r_results[i * 3 + 2]>>,
                   <<v_results[i * 3], v_results[i * 3 + 1], v_results[i * 3 + 2]>>)
    ELSE ErrorString("Propagation failed")

\* A loop left as soon as every iteration has started
LoopFinishedNoBarrier == \A i \in Indices : ipc[i] # "todo"

\* Line 174: the implicit barrier at the end of the parallel for; without
\* OpenMP, the end of the for loop.
LoopFinished == \A i \in Indices : ipc[i] = "done"

\* Lines 176-203: after the loop the result list is built from the buffers
\* and returned.
BatchReturn ==
    /\ pc = "loop"
    /\ LoopFinished
    /\ ret' = Returned("propagate_tle_batch", call,
                       OkTerm([k \in 1..length |-> BatchItem(k - 1)]))
    /\ pc' = "idle"
    /\ call' = NoCall
    /\ satrec' = NoSatrec
    /\ nthreads' = 0
    /\ ipc' = <<>>
    /\ loc' = <<>>
    /\ success' = <<>>
    /\ r_results' = <<>>
    /\ v_results' = <<>>
    /\ UNCHANGED <<openmp, client, calls, released, heapVars>>

\* The single-shot call, for comparison with the batch items
PropagateTleCall ==
    /\ client = "stateless"
    /\ pc = "idle" /\ ret = NoRet
    /\ \E a1 \in LineArgs, a2 \in LineArgs, a3 \in TimeArgs :
         ret' = Returned("propagate_tle", <<a1, a2, a3>>, propagate_tle(a1, a2, a3))
    /\ UNCHANGED <<openmp, client, calls, released, batchVars, heapVars>>

----------------------------------------------------------------------------
(* The handle API: init_satellite, propagate_satellite, get_satellite_info *)

\* The processes that may be inside propagate_satellite at the same time
Callers == {1, 2}

NoCaller == [busy |-> FALSE, args |-> <<>>, local_satrec |-> NoSatrec]

\* No process is inside propagate_satellite.  The model interleaves the calls
\* of propagate_satellite that reach sgp4 with each other and with
\* reclamation; the other handle operations, and the calls that fail their
\* argument checks, are made while none is running.
Quiet == \A c \in Callers : ~calls[c].busy

\* struct SatelliteResource after its constructor ran (lines 13-20)
SatelliteResource ==
    [satrec |-> NoSatrec, line1 |-> <<>>, line2 |-> <<>>, initialized |-> FALSE]

\* A resource as the runtime keeps it: the references the NIF code holds
\* (refc), the terms that refer to it (terms), how often its destructor ran
\* (dtor), and the object itself.  from1 and from2 record the binaries that
\* init_satellite was called with.
enif_alloc_resource(a1, a2) ==
    [refc |-> 1, terms |-> 0, dtor |-> 0, obj |-> SatelliteResource,
     from1 |-> a1.bytes, from2 |-> a2.bytes]

\* Lines 370-373: the destructor the runtime calls when the last reference goes
satellite_destructor(res) == [res EXCEPT !.dtor = @ + 1]

Unreferenced(res) == res.refc + res.terms = 0

enif_release_resource(res) ==
    LET r == [res EXCEPT !.refc = @ - 1]
    IN  IF Unreferenced(r) THEN satellite_destructor(r) ELSE r

enif_make_resource(res) == [res EXCEPT !.terms = @ + 1]

\* Lines 241-256: placement new, the two lines stored as std::string built
\* from the C strings, and the record decoded in place.
InitObject(res, a1, a2) ==
    LET tle1 == CStr(a1.bytes)
        tle2 == CStr(a2.bytes)
    IN  [res EXCEPT !.obj = [satrec |-> twoline2rv(tle1, tle2),
                             line1 |-> tle1, line2 |-> tle2,
                             initialized |-> FALSE]]

\* The failure path without its enif_release_resource
InitFailedNoRelease(res) ==
    [res |-> res,
     result |-> ErrorFmt("TLE initialization error: %d", res.obj.satrec.error),
     made |-> FALSE]

\* Lines 258-264: the decode failed; the only reference is released.
InitFailed(res) ==
    [res |-> enif_release_resource(res),
     result |-> ErrorFmt("TLE initialization error: %d", res.obj.satrec.error),
     made |-> FALSE]

\* The success path without the assignment of line 266
InitSucceededFlagUnset(res, a) ==
    [res |-> enif_release_resource(enif_make_resource(res)),
     result |-> OkTerm(Ref(a)),
     made |-> TRUE]

\* The success path with its release ahead of enif_make_resource
InitSucceededReleaseFirst(res, a) ==
    [res |-> enif_make_resource(
                 enif_release_resource([res EXCEPT !.obj.initialized = TRUE])),
     result |-> OkTerm(Ref(a)),
     made |-> TRUE]

\* Lines 266-273: the flag is set, the term is made, and the NIF's own
\* reference is released; a is the new resource's place in the heap.
InitSucceeded(res, a) ==
    [res |-> enif_release_resource(
                 enif_make_resource([res EXCEPT !.obj.initialized = TRUE])),
     result |-> OkTerm(Ref(a)),
     made |-> TRUE]

InitSatellite ==
    /\ client = "handle"
    /\ pc = "idle" /\ ret = NoRet /\ Quiet
    /\ \E a1 \in LineArgs, a2 \in LineArgs, allocated \in BOOLEAN :
         IF ~enif_inspect_binary(a1) \/ ~enif_inspect_binary(a2)
         THEN /\ ret' = Returned("init_satellite", <<a1, a2>>, badarg)
              /\ UNCHANGED heapVars
         ELSE IF TooLong(a1, a2)
         THEN /\ ret' = Returned("init_satellite", <<a1, a2>>,
                                 ErrorString("TLE lines too long"))
              /\ UNCHANGED heapVars
         ELSE IF ~allocated
         THEN /\ ret' = Returned("init_satellite", <<a1, a2>>,
                           ErrorString("Failed to allocate satellite resource"))
              /\ UNCHANGED heapVars
         ELSE /\ Len(heap) < MaxRes
              /\ LET sat_res == InitObject(enif_alloc_resource(a1, a2), a1, a2)
                     a == Len(heap) + 1
                     out == IF sat_res.obj.satrec.error # 0
                            THEN InitFailed(sat_res)
                            ELSE InitSucceeded(sat_res, a)
                 IN  /\ heap' = Append(heap, out.res)
                     /\ held' = IF out.made THEN held \cup {a} ELSE held
                     /\ ret' = Returned("init_satellite", <<a1, a2>>, out.result)
    /\ UNCHANGED <<openmp, client, calls, released, batchVars>>

\* enif_get_resource succeeds on a term that refers to a satellite resource;
\* such a term keeps its resource alive, so the caller has one only for the
\* resources it holds.
enif_get_resource(term) == term.type = "resource"

HandleArgs == {Ref(a) : a \in held} \cup {Atom, Integer(1)}

\* Lines 277-295: the argument checks, the initialized check, and the copy
\* of the stored record.  Either an early return (done) or the copy.
PropagateEntry(h, a1, a2) ==
    IF ~enif_get_resource(a1) \/ ~enif_get_double(a2)
    THEN [done |-> TRUE, result |-> badarg, local_satrec |-> NoSatrec]
    ELSE LET sat_res == h[a1.val].obj
         IN  IF ~sat_res.initialized
             THEN [done |-> TRUE, result |-> ErrorString("Satellite not initialized"),
                   local_satrec |-> NoSatrec]
             ELSE [done |-> FALSE, result |-> badarg,
                   local_satrec |-> sat_res.satrec]

\* Lines 297-318: sgp4 on the copy, and the term made of its outcome
PropagateResult(local_satrec, tsince) ==
    LET p == sgp4(local_satrec, tsince)
    IN  IF ~p.result \/ p.satrec.error # 0
        THEN ErrorFmt("Propagation error: %d", p.satrec.error)
        ELSE StateTerm(p.r, p.v)

\* Lines 277-319, a function of the heap and the arguments
propagate_satellite(h, a1, a2) ==
    LET e == PropagateEntry(h, a1, a2)
    IN  IF e.done THEN e.result ELSE PropagateResult(e.local_satrec, a2.val)

\* sgp4 run on the stored record itself, without the copy
StoredSatrecShared(sat_res, tsince) == sgp4(sat_res.satrec, tsince).satrec

\* Lines 294-299: sgp4 runs on local_satrec, a copy; the record stored in
\* the resource is what it was.
StoredSatrecAfter(sat_res, tsince) == sat_res.satrec

\* Lines 277-295: a process enters propagate_satellite.  A call that fails
\* its checks returns at once; otherwise the copy is taken and sgp4 is yet
\* to run.  Calls of other processes may be at the same point.
PropagateSatellite ==
    /\ client = "handle"
    /\ pc = "idle" /\ ret = NoRet
    /\ \E a1 \in HandleArgs, a2 \in TimeArgs :
         LET e == PropagateEntry(heap, a1, a2)
         IN  IF e.done
             THEN /\ Quiet
                  /\ ret' = Returned("propagate_satellite", <<a1, a2>>, e.result)
                  /\ UNCHANGED calls
             ELSE /\ \E c \in Callers :
                        /\ ~calls[c].busy
                        /\ calls' = [calls EXCEPT ![c] =
                                        [busy |-> TRUE, args |-> <<a1, a2>>,
                                         local_satrec |-> e.local_satrec]]
                  /\ UNCHANGED ret
    /\ UNCHANGED <<openmp, client, released, batchVars, heapVars>>

\* Lines 297-318: sgp4 returns in one of the calls and the call returns.
PropagateSatelliteReturn(c) ==
    /\ client = "handle"
    /\ calls[c].busy /\ ret = NoRet
    /\ LET a1 == calls[c].args[1]
           a2 == calls[c].args[2]
       IN  /\ ret' = Returned("propagate_satellite", <<a1, a2>>,
                              PropagateResult(calls[c].local_satrec, a2.val))
           /\ heap' = [heap EXCEPT ![a1.val].obj.satrec =
                           StoredSatrecAfter(heap[a1.val].obj, a2.val)]
    /\ calls' = [calls EXCEPT ![c] = NoCaller]
    /\ UNCHANGED <<openmp, client, released, batchVars, held>>

\* Lines 322-367: the map of decoded fields and the two retained lines, the
\* latter made with enif_make_string from c_str()
get_satellite_info(h, a1) ==
    IF ~enif_get_resource(a1)
    THEN badarg
    ELSE LET sat_res == h[a1.val].obj
         IN  IF ~sat_res.initialized
             THEN ErrorString("Satellite not initialized")
             ELSE OkTerm([elems |-> sat_res.satrec.elems,
                          line1 |-> CStr(sat_res.line1),
                          line2 |-> CStr(sat_res.line2)])

GetSatelliteInfo ==
    /\ client = "handle"
    /\ pc = "idle" /\ ret = NoRet /\ Quiet
    /\ \E a1 \in HandleArgs :
         ret' = Returned("get_satellite_info", <<a1>>, get_satellite_info(heap, a1))
    /\ UNCHANGED <<openmp, client, calls, released, batchVars, heapVars>>

\* Lines 386-395: nif_funcs registers five functions and none that releases
\* a satellite.  A caller's request to release one reaches no code of the
\* binding: the call of the unregistered function fails in the caller
\* (undef), and the resource and the caller's term are what they were.
undef == [tag |-> "undef"]

ReleaseSatellite ==
    /\ client = "handle"
    /\ pc = "idle" /\ ret = NoRet /\ Quiet
    /\ \E a1 \in HandleArgs :
         /\ ret' = Returned("release_satellite", <<a1>>, undef)
         /\ released' = IF enif_get_resource(a1)
                         THEN released \cup {a1.val}
                         ELSE released
    /\ UNCHANGED <<openmp, client, calls, batchVars, heapVars>>

\* The caller drops its term; the host reclaims the reference, and runs the
\* destructor (line 378 registers it) if that was the last one.
ReclaimTerm(res) ==
    LET r == [res EXCEPT !.terms = @ - 1]
    IN  IF Unreferenced(r) THEN satellite_destructor(r) ELSE r

DropHandle ==
    /\ client = "handle"
    /\ pc = "idle" /\ ret = NoRet
    /\ \E a \in held :
         /\ \A c \in Callers : calls[c].busy => calls[c].args[1] # Ref(a)
         /\ heap' = [heap EXCEPT ![a] = ReclaimTerm(heap[a])]
         /\ held' = held \ {a}
         /\ released' = released \ {a}
    /\ UNCHANGED <<openmp, client, calls, batchVars, ret>>

\* The caller takes the returned term; it may then make its next call.
TakeResult ==
    /\ ret # NoRet
    /\ ret' = NoRet
    /\ UNCHANGED <<openmp, client, calls, released, batchVars, heapVars>>

----------------------------------------------------------------------------
\* The two APIs share no state: a stateless call reads and writes nothing
\* that outlives it, so a run follows a client of one API or of the other.
Init ==
    /\ openmp \in BOOLEAN
    /\ client \in {"stateless", "handle"}
    /\ (client = "handle" => ~openmp)
    /\ pc = "idle"
    /\ call = NoCall
    /\ ret = NoRet
    /\ satrec = NoSatrec
    /\ nthreads = 0
    /\ ipc = <<>>
    /\ loc = <<>>
    /\ success = <<>>
    /\ r_results = <<>>
    /\ v_results = <<>>
    /\ heap = <<>>
    /\ held = {}
    /\ calls = [c \in Callers |-> NoCaller]
    /\ released = {}

Next ==
    \/ BatchCall
    \/ \E i \in DOMAIN ipc : IterCopy(i)
    \/ \E i \in DOMAIN ipc : IterPropagate(i)
    \/ \E i \in DOMAIN ipc : IterStoreFlag(i)
    \/ \E i \in DOMAIN ipc : IterStoreResults(i)
    \/ BatchReturn
    \/ PropagateTleCall
    \/ InitSatellite
    \/ PropagateSatellite
    \/ \E c \in Callers : PropagateSatelliteReturn(c)
    \/ GetSatelliteInfo
    \/ ReleaseSatellite
    \/ DropHandle
    \/ TakeResult

Spec == Init /\ [][Next]_vars

\* The batch call alone, with the scheduling it relies on: the threads of
\* the team keep running their iterations, and the thread that called the
\* NIF runs on to its return.  Whether the loop ends does not depend on what
\* the lines decode to, so the batches that enter the loop here are those of
\* one decodable pair of lines.
InitBatch == Init /\ client = "stateless"

FairLine == Binary(Rep(49, TleBufSize - 1))

BatchCallFair ==
    /\ BatchCall
    /\ pc' = "loop" => (call'[1] = FairLine /\ call'[2] = FairLine)

BatchStep ==
    \/ \E i \in DOMAIN ipc : IterCopy(i)
    \/ \E i \in DOMAIN ipc : IterPropagate(i)
    \/ \E i \in DOMAIN ipc : IterStoreFlag(i)
    \/ \E i \in DOMAIN ipc : IterStoreResults(i)
    \/ BatchReturn

NextBatch ==
    \/ BatchCallFair
    \/ BatchStep
    \/ TakeResult

FairSpec == InitBatch /\ [][NextBatch]_vars /\ WF_vars(BatchStep)

----------------------------------------------------------------------------
(* Vocabulary of the properties *)

TooLongError == ErrorString("TLE lines too long")

\* A batch call that ran its loop has returned
BatchDone == ret.op = "propagate_tle_batch" /\ ret.result.tag = "ok"

BatchList == ret.result.val
BatchTimes == ret.args[3].elems

Decoded(a1, a2) == twoline2rv(CStr(a1.bytes), CStr(a2.bytes))

\* What sgp4 reports for lines a1, a2 at time t, on a record fresh from the decoder
Propagated(a1, a2, t) == sgp4(Decoded(a1, a2), t)

PropagationFails(a1, a2, t) ==
    ~Propagated(a1, a2, t).result \/ Propagated(a1, a2, t).satrec.error # 0

\* The outcome of the batch item for time t taken on its own (lines 158-197)
OwnOutcome(a1, a2, t) ==
    IF PropagationFails(a1, a2, t)
    THEN ErrorString("Propagation failed")
    ELSE StateTerm(Propagated(a1, a2, t).r, Propagated(a1, a2, t).v)

\* Arguments that pass the argument checks of propagate_tle_batch
BatchShapeOk(args) ==
    /\ enif_inspect_binary(args[1]) /\ enif_inspect_binary(args[2])
    /\ enif_is_list(args[3])
    /\ Len(args[3].elems) > 0
    /\ \A k \in 1..Len(args[3].elems) : enif_get_double(args[3].elems[k])

----------------------------------------------------------------------------
(* C1: a batch call over N times returns exactly N outcomes, and the       *)
(* outcome at index i is the one computed for times[i], whatever the       *)
(* interleaving of the workers and the size of the team.                   *)
C1_BatchOrdered ==
    BatchDone =>
        /\ Len(BatchList) = Len(BatchTimes)
        /\ \A k \in 1..Len(BatchTimes) :
              BatchList[k] = OwnOutcome(ret.args[1], ret.args[2], BatchTimes[k].val)

(* C1 in the build without OpenMP, where the loop runs in index order: the *)
(* outcomes are N and in place.                                            *)
C1_SequentialBuild == ~openmp => C1_BatchOrdered

(* C2: the outcome at each index of a batch equals the outcome of the      *)
(* single-shot call on the same lines and that time: same tag, same        *)
(* vectors on success, same error on failure.                              *)
C2_BatchEqualsSingle ==
    BatchDone =>
        \A k \in 1..Len(BatchTimes) :
            BatchList[k] = propagate_tle(ret.args[1], ret.args[2], BatchTimes[k])

(* C3: a batch over decodable lines and a valid time list returns success, *)
(* and a propagation failure at one index leaves every other index with    *)
(* the outcome of its own propagation.                                     *)
C3_FailureIsLocal ==
    (/\ ret.op = "propagate_tle_batch"
     /\ BatchShapeOk(ret.args)
     /\ ~TooLong(ret.args[1], ret.args[2])
     /\ Decoded(ret.args[1], ret.args[2]).error = 0)
    =>
        /\ ret.result.tag = "ok"
        /\ \A i, j \in 1..Len(BatchTimes) :
              (i # j /\ PropagationFails(ret.args[1], ret.args[2], BatchTimes[i].val))
              => BatchList[j] = OwnOutcome(ret.args[1], ret.args[2], BatchTimes[j].val)

(* C4: every propagation failure reported to the caller, by the            *)
(* single-shot call, by the handle call and for a failed batch item, is an *)
(* error that carries sgp4's numeric error code for that call.             *)
CarriesCode(term, a1, a2, t) ==
    /\ term.tag = "error"
    /\ term.hasCode
    /\ term.code = Propagated(a1, a2, t).satrec.error

C4_FailureCarriesSubcode ==
    /\ (/\ ret.op = "propagate_tle"
        /\ ret.result.tag = "error"
        /\ ret.result # TooLongError
        /\ Decoded(ret.args[1], ret.args[2]).error = 0)
       => CarriesCode(ret.result, ret.args[1], ret.args[2], ret.args[3].val)
    /\ (/\ ret.op = "propagate_satellite"
        /\ ret.result.tag = "error")
       => CarriesCode(ret.result, Binary(heap[ret.args[1].val].from1),
                      Binary(heap[ret.args[1].val].from2), ret.args[2].val)
    /\ BatchDone =>
          \A k \in 1..Len(BatchTimes) :
              BatchList[k].tag = "error"
              => CarriesCode(BatchList[k], ret.args[1], ret.args[2], BatchTimes[k].val)

(* C4 without the batch: the single-shot and the handle call do pass the   *)
(* code through.                                                           *)
C4_SingleAndHandleCarrySubcode ==
    /\ (/\ ret.op = "propagate_tle"
        /\ ret.result.tag = "error"
        /\ ret.result # TooLongError
        /\ Decoded(ret.args[1], ret.args[2]).error = 0)
       => CarriesCode(ret.result, ret.args[1], ret.args[2], ret.args[3].val)
    /\ (/\ ret.op = "propagate_satellite"
        /\ ret.result.tag = "error")
       => CarriesCode(ret.result, Binary(heap[ret.args[1].val].from1),
                      Binary(heap[ret.args[1].val].from2), ret.args[2].val)

(* C5: propagating through a handle made from lines L1, L2 returns what    *)
(* the single-shot call returns for L1, L2 and the same time, however many *)
(* propagations the handle has served before.                              *)
C5_HandleEqualsSingle ==
    (ret.op = "propagate_satellite" /\ enif_get_resource(ret.args[1]))
    => ret.result = propagate_tle(Binary(heap[ret.args[1].val].from1),
                                  Binary(heap[ret.args[1].val].from2),
                                  ret.args[2])

\* A handle has propagated successfully to a time other than the epoch
C5_Witness ==
    /\ ret.op = "propagate_satellite"
    /\ enif_get_resource(ret.args[1])
    /\ ret.result.tag = "ok"
    /\ ret.args[2] = Float(1)

HandleCall == ret.op \in {"propagate_satellite", "get_satellite_info"}

LiveHandle(term) == enif_get_resource(term) /\ term.val \in held

(* C6: releasing a handle is idempotent and final: a release asked for a   *)
(* handle is answered with an acknowledgement or a NotFoundError result    *)
(* and never fails the call, the first release destroys the resource, and  *)
(* every later PropagateHandle and GetHandleInfo on the released handle    *)
(* returns a NotFoundError.                                                *)
C6_ReleasedHandleIsNotFound ==
    /\ (ret.op = "release_satellite" /\ enif_get_resource(ret.args[1]))
       => ret.result.tag \in {"ok", "error"}
    /\ \A a \in released : heap[a].dtor = 1
    /\ (/\ HandleCall
        /\ enif_get_resource(ret.args[1])
        /\ ret.args[1].val \in released
        /\ (ret.op = "propagate_satellite" => enif_get_double(ret.args[2])))
       => ret.result.tag = "error"

(* C7: get_satellite_info reports line1 and line2 byte for byte as they    *)
(* were given to init_satellite, with the same length and no truncation.   *)
C7_LinesRoundTrip ==
    (ret.op = "get_satellite_info" /\ ret.result.tag = "ok")
    => /\ ret.result.val.line1 = heap[ret.args[1].val].from1
       /\ ret.result.val.line2 = heap[ret.args[1].val].from2

(* C7 for lines without a NUL byte: those do come back byte for byte.      *)
C7_NulFreeLinesRoundTrip ==
    (ret.op = "get_satellite_info" /\ ret.result.tag = "ok")
    => /\ (\A k \in 1..Len(heap[ret.args[1].val].from1) :
               heap[ret.args[1].val].from1[k] # NUL)
           => ret.result.val.line1 = heap[ret.args[1].val].from1
       /\ (\A k \in 1..Len(heap[ret.args[1].val].from2) :
               heap[ret.args[1].val].from2[k] # NUL)
           => ret.result.val.line2 = heap[ret.args[1].val].from2

(* C8: in propagate_tle, propagate_tle_batch and init_satellite, a call    *)
(* whose arguments have the right shape is rejected with the line-length   *)
(* error exactly when line1 or line2 is longer than 69 bytes; otherwise    *)
(* the lines reach the decoder, whose verdict decides what follows.        *)
LongerThan69(a1, a2) == Len(a1.bytes) > 69 \/ Len(a2.bytes) > 69

DecodeVerdict(result, a1, a2) ==
    /\ result # TooLongError
    /\ Decoded(a1, a2).error # 0
       => result = ErrorFmt("TLE initialization error: %d", Decoded(a1, a2).error)
    /\ Decoded(a1, a2).error = 0
       => ~(result.tag = "error" /\ result.msg = "TLE initialization error: %d")

LengthChecked(result, a1, a2) ==
    IF LongerThan69(a1, a2)
    THEN result = TooLongError
    ELSE DecodeVerdict(result, a1, a2)

C8_LengthBoundary ==
    /\ (/\ ret.op = "propagate_tle"
        /\ enif_inspect_binary(ret.args[1]) /\ enif_inspect_binary(ret.args[2])
        /\ enif_get_double(ret.args[3]))
       => LengthChecked(ret.result, ret.args[1], ret.args[2])
    /\ (ret.op = "propagate_tle_batch" /\ BatchShapeOk(ret.args))
       => LengthChecked(ret.result, ret.args[1], ret.args[2])
    /\ pc = "loop"
       => /\ ~LongerThan69(call[1], call[2])
          /\ satrec = Decoded(call[1], call[2])
          /\ satrec.error = 0
    /\ (/\ ret.op = "init_satellite"
        /\ enif_inspect_binary(ret.args[1]) /\ enif_inspect_binary(ret.args[2])
        /\ ret.result # ErrorString("Failed to allocate satellite resource"))
       => LengthChecked(ret.result, ret.args[1], ret.args[2])

\* A batch call with a line of 69 bytes and a line of 70 bytes was rejected
C8_Witness ==
    /\ ret.op = "propagate_tle_batch"
    /\ BatchShapeOk(ret.args)
    /\ Len(ret.args[1].bytes) = 69
    /\ Len(ret.args[2].bytes) = 70
    /\ ret.result = TooLongError

(* C9: a batch call whose time list is empty, or holds an entry that is    *)
(* not a number, returns an explicit error result and raises nothing.      *)
BadTimes(a3) ==
    /\ enif_is_list(a3)
    /\ \/ Len(a3.elems) = 0
       \/ \E k \in 1..Len(a3.elems) : a3.elems[k].type \notin {"float", "integer"}

C9_BadTimesIsErrorResult ==
    (/\ ret.op = "propagate_tle_batch"
     /\ enif_inspect_binary(ret.args[1]) /\ enif_inspect_binary(ret.args[2])
     /\ BadTimes(ret.args[3]))
    => ret.result.tag = "error"

(* C10: an init_satellite call that fails creates no handle and leaks      *)
(* nothing: the caller holds what it held, the resources that existed are  *)
(* untouched, and a resource allocated by the call has had its destructor  *)
(* run exactly once and has no reference left when the call returns.       *)
C10_FailedCreateLeaksNothing ==
    [][(ret'.op = "init_satellite" /\ ret' # ret /\ ret'.result.tag # "ok")
       => /\ held' = held
          /\ \A a \in 1..Len(heap') :
                IF a \in 1..Len(heap)
                THEN heap'[a] = heap[a]
                ELSE heap'[a].dtor = 1 /\ Unreferenced(heap'[a])]_vars

\* An init_satellite call failed in the decoder after allocating its resource
C10_Witness ==
    /\ ret.op = "init_satellite"
    /\ ret.result.tag = "error"
    /\ ret.result.hasCode
    /\ Len(heap) > 0
    /\ heap[Len(heap)].from1 = ret.args[1].bytes
    /\ heap[Len(heap)].dtor = 1
    /\ ~heap[Len(heap)].obj.initialized

(* C11: every successful outcome of the single-shot call, of the handle    *)
(* call and of a batch item carries sgp4's raw position and velocity for   *)
(* that call, each of the six components multiplied by 1000.               *)
Scaled(x) == [k \in 1..3 |-> x[k] * KmToM]

RawTimes1000(term, a1, a2, t) ==
    term.val = <<Scaled(Propagated(a1, a2, t).r), Scaled(Propagated(a1, a2, t).v)>>

C11_SuccessIsRawTimes1000 ==
    /\ (ret.op = "propagate_tle" /\ ret.result.tag = "ok")
       => RawTimes1000(ret.result, ret.args[1], ret.args[2], ret.args[3].val)
    /\ (ret.op = "propagate_satellite" /\ ret.result.tag = "ok")
       => RawTimes1000(ret.result, Binary(heap[ret.args[1].val].from1),
                       Binary(heap[ret.args[1].val].from2), ret.args[2].val)
    /\ BatchDone =>
          \A k \in 1..Len(BatchTimes) :
              BatchList[k].tag = "ok"
              => RawTimes1000(BatchList[k], ret.args[1], ret.args[2], BatchTimes[k].val)

(* C11 where no flag is written concurrently: the single-shot call, the    *)
(* handle call and the batch of the build without OpenMP return the raw    *)
(* components multiplied by 1000.                                          *)
C11_ScaledWithoutRace == (BatchDone /\ openmp) \/ C11_SuccessIsRawTimes1000

(* C12: no two invocations of sgp4 that run at the same time work on the   *)
(* same record.  Every batch iteration and every propagate_satellite call, *)
(* concurrent calls on one handle included, gives sgp4 a copy of its own   *)
(* taken before the call: the record a waiting invocation is about to work *)
(* on, and the record the copies are taken from, are the decoded record,   *)
(* whatever the invocations that have already run wrote.                   *)
C12_PrivateRecords ==
    /\ pc = "loop" =>
          LET decoded == Decoded(call[1], call[2])
          IN  /\ satrec = decoded
              /\ \A i \in Indices : ipc[i] = "call" => loc[i].satrec = decoded
    /\ \A c \in Callers :
          calls[c].busy =>
              LET res == heap[calls[c].args[1].val]
                  decoded == Decoded(Binary(res.from1), Binary(res.from2))
              IN  /\ calls[c].local_satrec = decoded
                  /\ res.obj.satrec = decoded

\* Two iterations hold their copies and wait for sgp4 while sgp4 has
\* returned, with its record written, in a third
C12_Witness ==
    /\ pc = "loop"
    /\ \E i, j, k \in Indices :
          /\ i # j
          /\ ipc[i] = "call" /\ ipc[j] = "call"
          /\ ipc[k] \in {"store", "check"}
          /\ loc[k].satrec # satrec

(* C13: propagate_satellite and get_satellite_info change nothing of what  *)
(* a handle stores (record, two lines, initialized flag), whether the      *)
(* propagation succeeds or fails; so the call just returned, made again on *)
(* the same handle with the same time, returns the same result.            *)
HandleStep ==
    \/ calls' # calls
    \/ (ret = NoRet /\ ret'.op \in {"propagate_satellite", "get_satellite_info"})

C13_HandleCallsKeepRecord ==
    [][HandleStep =>
          /\ Len(heap') = Len(heap)
          /\ \A a \in 1..Len(heap) : heap'[a].obj = heap[a].obj
          /\ (ret'.op = "propagate_satellite" /\ ret' # ret)
             => ret'.result = propagate_satellite(heap', ret'.args[1], ret'.args[2])
          /\ (ret'.op = "get_satellite_info" /\ ret' # ret)
             => ret'.result = get_satellite_info(heap', ret'.args[1])]_vars

\* A propagation through a live handle has failed inside sgp4
C13_Witness ==
    /\ ret.op = "propagate_satellite"
    /\ LiveHandle(ret.args[1])
    /\ ret.result.tag = "error"
    /\ ret.result.hasCode
    /\ heap[ret.args[1].val].obj.initialized
    /\ heap[ret.args[1].val].obj.satrec.error = 0

(* C14: a batch call that has passed its checks and decoded its lines      *)
(* returns, and returns only when all N iterations have completed: the     *)
(* result list is not built while an iteration is running, and an          *)
(* iteration that has started runs to its end.                             *)
C14_BatchReturnsAfterAll ==
    /\ (pc = "loop") ~> (pc = "idle" /\ BatchDone)
    /\ [][(pc = "loop" /\ pc' = "idle")
          => /\ \A i \in Indices : ipc[i] = "done"
             /\ BatchDone'
             /\ Len(ret'.result.val) = length]_vars
    /\ [][\A i \in DOMAIN ipc :
             ipc[i] \in {"call", "store", "check"}
             => /\ pc' = "loop"
                /\ ipc'[i] \in {ipc[i], "store", "check", "done"}]_vars

\* A batch of three times has come back from a team of threads
C14_Witness ==
    /\ openmp
    /\ pc = "idle"
    /\ BatchDone
    /\ Len(BatchList) = 3

(* C15: the destructor of a resource that init_satellite allocated runs    *)
(* once, when its last reference goes, by whichever path that is (the      *)
(* release on the decode-failure path, or the host reclaiming the caller's *)
(* term): never a second time, and never while a reference is held, be it  *)
(* the caller's term or the argument of a call in progress.                *)
C15_DestructorOnceAtLastReference ==
    \A a \in 1..Len(heap) :
        /\ heap[a].dtor \in {0, 1}
        /\ heap[a].refc >= 0 /\ heap[a].terms >= 0
        /\ heap[a].dtor = 1 <=> Unreferenced(heap[a])
        /\ heap[a].obj.satrec.error # 0 => heap[a].dtor = 1
        /\ (a \in held
            \/ \E c \in Callers : calls[c].busy /\ calls[c].args[1] = Ref(a))
           => heap[a].dtor = 0

\* One resource went by the decode-failure path, another by reclamation
C15_Witness ==
    \E a, b \in 1..Len(heap) :
        /\ heap[a].obj.satrec.error # 0 /\ heap[a].dtor = 1
        /\ heap[b].obj.initialized /\ b \notin held /\ heap[b].dtor = 1

(* C16: the per-index success flags are written in the parallel loop       *)
(* without interference: when the loop has ended, under every interleaving *)
(* of the iterations, success[i] is the outcome of item i's own            *)
(* propagation for every i.                                                *)
C16_FlagsAreOwnOutcomes ==
    (pc = "loop" /\ LoopFinished)
    => \A i \in Indices :
          success[i] = ~PropagationFails(call[1], call[2], times[i])

(* C16 in the build without OpenMP, where one iteration runs at a time in  *)
(* index order: the flags are the items' own outcomes.                     *)
C16_SequentialBuild == ~openmp => C16_FlagsAreOwnOutcomes

(* C17: every handle a caller can hold came from a successful              *)
(* init_satellite: its resource has initialized = TRUE and a record        *)
(* decoded without error, and the flag, once set, stays set; so            *)
(* propagate_satellite and get_satellite_info never answer 'Satellite not  *)
(* initialized'.                                                           *)
NotInitializedError == ErrorString("Satellite not initialized")

C17_HeldHandlesAreInitialized ==
    /\ \A a \in held :
          /\ a \in 1..Len(heap)
          /\ heap[a].obj.initialized
          /\ heap[a].obj.satrec.error = 0
    /\ \A a \in 1..Len(heap) :
          heap[a].obj.initialized <=> heap[a].obj.satrec.error = 0
    /\ \A c \in Callers :
          calls[c].busy => heap[calls[c].args[1].val].obj.initialized
    /\ HandleCall => ret.result # NotInitializedError

\* With two handles held, one of them is asked for its data
C17_Witness ==
    /\ ret.op = "get_satellite_info"
    /\ LiveHandle(ret.args[1])
    /\ ret.result.tag = "ok"
    /\ Cardinality(held) = 2

(* C18: when init_satellite cannot allocate the storage of a new handle    *)
(* the call is a hard failure, not an error result; and a hard failure of  *)
(* any operation has one of two causes, that one or an argument of the     *)
(* wrong type.                                                             *)
WrongArgumentType(r) ==
    \/ (r.op \in {"propagate_tle", "propagate_tle_batch", "init_satellite"}
        /\ (~enif_inspect_binary(r.args[1]) \/ ~enif_inspect_binary(r.args[2])))
    \/ (r.op = "propagate_tle" /\ ~enif_get_double(r.args[3]))
    \/ (r.op = "propagate_tle_batch" /\ ~enif_is_list(r.args[3]))
    \/ (r.op \in {"propagate_satellite", "get_satellite_info"}
        /\ ~enif_get_resource(r.args[1]))
    \/ (r.op = "propagate_satellite" /\ ~enif_get_double(r.args[2]))

\* init_satellite was given two lines that pass its checks and made no resource
AllocationFailed ==
    /\ ret = NoRet /\ ret'.op = "init_satellite"
    /\ enif_inspect_binary(ret'.args[1]) /\ enif_inspect_binary(ret'.args[2])
    /\ ~TooLong(ret'.args[1], ret'.args[2])
    /\ heap' = heap

C18_OnlyAllocationAndShapeAreHard ==
    [][/\ AllocationFailed => ret'.result = badarg
       /\ (ret' # ret /\ ret' # NoRet /\ ret'.result = badarg)
          => (WrongArgumentType(ret') \/ AllocationFailed)]_vars

====
